---------------------------- MODULE Spec2Model ----------------------------
(***************************************************************************)
(* A model of docs-server: the request handler of server.js with the path  *)
(* guard (isSubPath), the gitignore engine (loadGitignoreRules,            *)
(* shouldIgnoreFile, clearGitignoreCache) and the language detector.       *)
(*                                                                         *)
(* Strings are sequences of tokens.  The token "." is one dot, the token   *)
(* "/" (used only in flattened strings) is the POSIX separator, and every  *)
(* other token is a run of characters holding neither.  A file name is a   *)
(* sequence of tokens (".git" is <<".", "git">>), a path is a sequence of  *)
(* file names.  The platform is POSIX.                                     *)
(***************************************************************************)
EXTENDS Integers, Sequences, FiniteSets, TLC

VARIABLES
  gitignore,       \* .gitignore of each directory of the upward walk
  tree,            \* kind of each node below the served root
  gitignoreCache,  \* the Map gitignoreCache: root directory -> rule list
  pc,              \* position of the request handler
  req,             \* the request being handled (decoded path segments)
  fullPath,        \* path.join(ROOT_DIR, requestedPath)
  res,             \* the response sent for the request, if any
  caught,          \* the error the catch block caught and logged, if any
  steps,           \* the checks the handler has performed, in order
  accessed,        \* filesystem accesses of the handler for this request
  builds,          \* rule-set builds since the cache was last empty
  envSteps,        \* number of changes made by other processes
  ignoreFilesChanged, \* an ignore file was changed after the cached build
  probe,           \* input and output of a direct call of the pure functions
  startup          \* the process: arguments, ROOT_DIR, PORT, exit, listening

vars == <<gitignore, tree, gitignoreCache, pc, req, fullPath, res, caught, steps,
          accessed, builds, envSteps, ignoreFilesChanged, probe, startup>>

serverVars == <<gitignore, tree, gitignoreCache, pc, req, fullPath, res, caught,
                steps, accessed, builds, envSteps, ignoreFilesChanged, startup>>

---------------------------------------------------------------------------
(* Bounds *)

MaxSegs == 1

MaxProbeSegs == 3

MaxEnvSteps == 1

---------------------------------------------------------------------------
(* Names *)

Dot == <<".">>

DotDot == <<".", ".">>

Empty == <<>>

nSrv == <<"srv">>

nDocs == <<"docs">>

nEtc == <<"etc">>

nPasswd == <<"passwd">>

nGit == <<".", "git">>

nNotes == <<".", ".", "notes">>

nA == <<"a">>

nF == <<"f", ".", "md">>

nUpperA == <<"A">>

nATxt == <<"a", ".", "txt">>

nBTxt == <<"b", ".", "txt">>

nUpperBTxt == <<"B", ".", "txt">>

nEnv == <<".", "env">>

nPng == <<"p", ".", "png">>

nMmd == <<"d", ".", "mmd">>

nDotMd == <<".", "x", ".", "md">>

nDotDotMd == <<".", ".", "x", ".", "md">>

nHidden == <<".", "h">>

nJs == <<"x", ".", "js">>

nHtml == <<"i", ".", "html">>

ROOT_DIR == <<nSrv, nDocs>>

\* String#toLowerCase on the pieces a name is written with
LowerCaseOf ==
  [A |-> "a", B |-> "b", JS |-> "js", Py |-> "py", MD |-> "md", Html |-> "html",
   TXT |-> "txt"]

ToLowerCase(str) ==
  [i \in DOMAIN str |->
     IF str[i] \in DOMAIN LowerCaseOf THEN LowerCaseOf[str[i]] ELSE str[i]]

RECURSIVE SeqsUpTo(_, _)
SeqsUpTo(S, n) ==
  IF n = 0 THEN {<<>>}
  ELSE LET shorter == SeqsUpTo(S, n - 1)
       IN  shorter \cup {Append(s, x) : s \in {t \in shorter : Len(t) = n - 1}, x \in S}

---------------------------------------------------------------------------
(* node:path, POSIX *)

IsPrefix(p, q) == Len(p) <= Len(q) /\ SubSeq(q, 1, Len(p)) = p

\* Segments of an absolute path reduced as path.normalize / path.resolve do:
\* empty and "." segments vanish, ".." removes the segment before it and is
\* dropped at the filesystem root.
RECURSIVE NormalizeFrom(_, _)
NormalizeFrom(acc, segs) ==
  IF segs = <<>> THEN acc
  ELSE LET s == Head(segs)
           next == IF s = Empty \/ s = Dot THEN acc
                   ELSE IF s = DotDot
                        THEN (IF acc = <<>> THEN acc ELSE SubSeq(acc, 1, Len(acc) - 1))
                        ELSE Append(acc, s)
       IN  NormalizeFrom(next, Tail(segs))

PathResolve(segs) == NormalizeFrom(<<>>, segs)

\* path.join(a, b): normalize(a + "/" + b); a trailing separator of the raw
\* string is kept unless the result is the filesystem root.
PathJoin(base, segs) ==
  LET n == NormalizeFrom(<<>>, base \o segs)
  IN  [segs  |-> n,
       trail |-> n # <<>> /\ (segs = <<>> \/ segs[Len(segs)] = Empty)]

RECURSIVE CommonLen(_, _)
CommonLen(p, q) ==
  IF p = <<>> \/ q = <<>> \/ Head(p) # Head(q) THEN 0
  ELSE 1 + CommonLen(Tail(p), Tail(q))

\* path.relative(from, to) as a sequence of segments (both are resolved first)
PathRelative(from, to) ==
  LET f == PathResolve(from)
      t == PathResolve(to)
      k == CommonLen(f, t)
  IN  [i \in 1..(Len(f) - k) |-> DotDot] \o SubSeq(t, k + 1, Len(t))

\* The string of a relative path: its segments joined by "/"
RECURSIVE JoinSep(_)
JoinSep(segs) ==
  IF segs = <<>> THEN <<>>
  ELSE IF Len(segs) = 1 THEN Head(segs)
  ELSE Head(segs) \o <<"/">> \o JoinSep(Tail(segs))

StartsWith(str, prefix) == IsPrefix(prefix, str)

PathIsAbsolute(str) == str # <<>> /\ Head(str) = "/"

---------------------------------------------------------------------------
(* lib/security *)

isSubPath_NoDotDotCheck(parent, child) ==
  LET relative == JoinSep(PathRelative(parent, child))
  IN  relative = <<>> \/ (relative # <<>> /\ ~PathIsAbsolute(relative))

isSubPath_NoDotFiles(parent, child) ==
  LET relative == JoinSep(PathRelative(parent, child))
  IN  relative = <<>>
      \/ (relative # <<>> /\ ~StartsWith(relative, <<".">>) /\ ~PathIsAbsolute(relative))

isSubPath(parent, child) ==
  LET relative == JoinSep(PathRelative(parent, child))
  IN  relative = <<>>
      \/ (relative # <<>> /\ ~StartsWith(relative, <<".", ".">>) /\ ~PathIsAbsolute(relative))

---------------------------------------------------------------------------
(* The rule list of the ignore package: patterns in the order added.  A     *)
(* pattern is a name or "*", possibly negated ("!"), possibly directory-    *)
(* only (trailing "/").                                                     *)

Pat(neg, star, name, dirOnly) ==
  [neg |-> neg, star |-> star, name |-> name, dirOnly |-> dirOnly]

pGit == Pat(FALSE, FALSE, nGit, FALSE)

pA == Pat(FALSE, FALSE, nA, FALSE)

pNotA == Pat(TRUE, FALSE, nA, FALSE)

pADir == Pat(FALSE, FALSE, nA, TRUE)

pStar == Pat(FALSE, TRUE, Empty, FALSE)

pNotGit == Pat(TRUE, FALSE, nGit, FALSE)

pF == Pat(FALSE, FALSE, nF, FALSE)

pNotF == Pat(TRUE, FALSE, nF, FALSE)

\* A pattern without a separator matches the last component of the tested
\* path at any depth; a directory-only pattern matches only a path tested
\* with a trailing separator.
RuleMatches(rule, comps, asDir) ==
  /\ rule.star \/ ToLowerCase(rule.name) = ToLowerCase(comps[Len(comps)])
  /\ rule.dirOnly => asDir

\* Ignore#_testOne: the last matching rule decides.
RECURSIVE TestOne(_, _, _, _)
TestOne(rules, comps, asDir, ignored) ==
  IF rules = <<>> THEN ignored
  ELSE LET r == Head(rules)
       IN  TestOne(Tail(rules), comps, asDir,
                   IF RuleMatches(r, comps, asDir) THEN ~r.neg ELSE ignored)

\* Ignore#ignores: every parent directory is tested first (with a trailing
\* separator); a path below an ignored directory is ignored.
IgIgnores(rules, comps) ==
  \/ \E k \in 1..(Len(comps) - 1) : TestOne(rules, SubSeq(comps, 1, k), TRUE, FALSE)
  \/ TestOne(rules, comps, FALSE, FALSE)

---------------------------------------------------------------------------
(* lib/gitignoreParser *)

shouldIgnoreFile_NoOutsideCheck(filePath, rootDir, ig) ==
  LET relativePath == PathRelative(rootDir, filePath)
      relStr == JoinSep(relativePath)
  IN  IF relStr = <<>> THEN FALSE
      ELSE IgIgnores(ig, relativePath)

shouldIgnoreFile_RootTested(filePath, rootDir, ig) ==
  LET relativePath == PathRelative(rootDir, filePath)
      relStr == JoinSep(relativePath)
  IN  IF StartsWith(relStr, <<".", ".">>) THEN FALSE
      ELSE IF relStr = <<>> THEN IgIgnores(ig, <<Dot>>)
      ELSE IgIgnores(ig, relativePath)

\* shouldIgnoreFile with ig the result of loadGitignoreRules(rootDir)
shouldIgnoreFile(filePath, rootDir, ig) ==
  LET relativePath == PathRelative(rootDir, filePath)
      relStr == JoinSep(relativePath)
  IN  IF StartsWith(relStr, <<".", ".">>) THEN FALSE
      ELSE IF relStr = <<>> \/ relStr = <<".">> THEN FALSE
      ELSE IgIgnores(ig, relativePath)

---------------------------------------------------------------------------
(* The filesystem seen by the server *)

nGitignore == <<".", "gitignore">>

\* Directories visited by the upward walk from ROOT_DIR: the root, its
\* parent, the filesystem root.
WalkDirs == {SubSeq(ROOT_DIR, 1, k) : k \in 0..Len(ROOT_DIR)}

Absent == [st |-> "absent", pats |-> <<>>]

Unreadable == [st |-> "unreadable", pats |-> <<>>]

Readable(pats) == [st |-> "ok", pats |-> pats]

\* Contents an ignore file may have, per directory of the walk
GitignoreChoices(dir) ==
  IF dir = ROOT_DIR
    THEN {Absent, Unreadable, Readable(<<pA>>), Readable(<<pStar>>),
          Readable(<<pNotGit>>), Readable(<<pADir>>)}
  ELSE IF dir = <<nSrv>> THEN {Absent, Unreadable, Readable(<<pNotA>>)}
  ELSE {Absent, Readable(<<pF>>)}

Gitignores(root, parent, top) ==
  [d \in WalkDirs |-> IF d = ROOT_DIR THEN root ELSE IF d = <<nSrv>> THEN parent ELSE top]

\* The ignore files found at startup
InitialGitignores ==
  {Gitignores(Absent, Absent, Absent),
   Gitignores(Readable(<<pA>>), Absent, Absent),
   Gitignores(Readable(<<pStar>>), Absent, Absent),
   Gitignores(Readable(<<pNotGit>>), Absent, Absent),
   Gitignores(Readable(<<pADir>>), Absent, Absent),
   Gitignores(Readable(<<pA>>), Readable(<<pNotA>>), Absent),
   Gitignores(Readable(<<pA>>), Unreadable, Readable(<<pF>>)),
   Gitignores(Unreadable, Absent, Readable(<<pF>>))}

\* Nodes below the root (paths relative to it) that may exist
TreeNodes ==
  {<<>>, <<nA>>, <<nA, nF>>, <<nF>>, <<nGit>>, <<nNotes>>, <<nEnv>>, <<nPng>>,
   <<nUpperA>>, <<nATxt>>, <<nBTxt>>, <<nUpperBTxt>>,
   <<nMmd>>, <<nDotMd>>, <<nDotDotMd>>, <<nJs>>, <<nHtml>>, <<nHidden>>, <<nHidden, nPng>>}

\* The nodes that other processes change while the server runs
EnvNodes == {<<>>, <<nA>>, <<nA, nF>>, <<nF>>, <<nGit>>, <<nNotes>>}

\* "broken": a symbolic link whose target does not exist
Kinds == {"none", "file", "dir", "broken"}

InitialTree ==
  [n \in TreeNodes |->
     IF n \in {<<>>, <<nA>>, <<nGit>>} THEN "dir"
     ELSE IF n \in {<<nA, nF>>, <<nF>>, <<nNotes>>, <<nEnv>>, <<nPng>>} THEN "file"
     ELSE "none"]

\* A child exists only in a directory
TreeOk(t) ==
  \A n \in TreeNodes :
    (n # <<>> /\ t[n] # "none") => t[SubSeq(n, 1, Len(n) - 1)] = "dir"

\* Kind of an absolute path inside the root
KindOf(t, abs) ==
  LET rel == SubSeq(abs, Len(ROOT_DIR) + 1, Len(abs))
  IN  IF IsPrefix(ROOT_DIR, abs) /\ rel \in TreeNodes THEN t[rel] ELSE "none"

\* fs.existsSync: a path written with a trailing separator names a directory
FsExists(t, fp) ==
  LET k == KindOf(t, fp.segs)
  IN  k = "dir" \/ (k = "file" /\ ~fp.trail)

\* The error of fs.statSync (and of the other calls that follow the path)
StatError(t, fp) ==
  LET k == KindOf(t, fp.segs)
  IN  IF k \in {"none", "broken"} THEN "ENOENT"
      ELSE IF k = "file" /\ fp.trail THEN "ENOTDIR"
      ELSE "none"

\* fs.readdirSync: names of the direct children
ReadDir(t, abs) ==
  LET rel == SubSeq(abs, Len(ROOT_DIR) + 1, Len(abs))
  IN  {n[Len(n)] : n \in {m \in TreeNodes :
                           /\ Len(m) = Len(rel) + 1
                           /\ IsPrefix(rel, m)
                           /\ t[m] # "none"}}

---------------------------------------------------------------------------
(* lib/gitignoreParser: loadGitignoreRules *)

PathDirname(dir) == IF dir = <<>> THEN dir ELSE SubSeq(dir, 1, Len(dir) - 1)

\* The while loop: patterns of the current directory's ignore file, then
\* those of its parents, until the filesystem root or a directory already
\* checked.
RECURSIVE WalkUp(_, _, _)
WalkUp(currentDir, checkedDirs, gi) ==
  IF currentDir \in checkedDirs THEN <<>>
  ELSE LET here == IF gi[currentDir].st = "ok" THEN gi[currentDir].pats ELSE <<>>
           parentDir == PathDirname(currentDir)
       IN  IF parentDir = currentDir THEN here
           ELSE here \o WalkUp(parentDir, checkedDirs \cup {currentDir}, gi)

\* A fresh ignore instance: ".git", then the files of the walk
BuildRules(rootDir, gi) == <<pGit>> \o WalkUp(rootDir, {}, gi)

CacheHas(cache, rootDir) == rootDir \in DOMAIN cache

loadGitignoreRules_NoCache(cache, rootDir, gi) == BuildRules(rootDir, gi)

\* The rule list loadGitignoreRules returns
loadGitignoreRules(cache, rootDir, gi) ==
  IF CacheHas(cache, rootDir) THEN cache[rootDir] ELSE BuildRules(rootDir, gi)

CacheSet_GitOnly(cache, rootDir, ig) ==
  [d \in DOMAIN cache \cup {rootDir} |-> IF d = rootDir THEN <<pGit>> ELSE cache[d]]

\* gitignoreCache.set(rootDir, ig)
CacheSet(cache, rootDir, ig) ==
  [d \in DOMAIN cache \cup {rootDir} |-> IF d = rootDir THEN ig ELSE cache[d]]

\* Files the walk touches: existsSync on every ignore file, readFileSync on
\* those that exist
WalkAccesses(rootDir, gi) ==
  {[path |-> d \o <<nGitignore>>, op |-> "exists"] : d \in WalkDirs}
    \cup {[path |-> d \o <<nGitignore>>, op |-> "read"] :
            d \in {w \in WalkDirs : gi[w].st # "absent"}}

---------------------------------------------------------------------------
(* Classification: path.extname, mime.getType, detectLanguage, getFileType *)

LastDot(name) ==
  LET dots == {i \in 1..Len(name) : name[i] = "."}
  IN  IF dots = {} THEN 0 ELSE CHOOSE i \in dots : \A j \in dots : j <= i

\* path.extname: from the last dot of the base name, unless that dot is its
\* first character
RawExtname(name) ==
  IF LastDot(name) <= 1 THEN <<>> ELSE SubSeq(name, LastDot(name), Len(name))

\* path.extname(...).toLowerCase()
PathExtname(name) == ToLowerCase(RawExtname(name))

\* mime.getType: looked up from the text after the last dot; null when the
\* name has no dot after its first character or the extension is unknown
MimeGetType(name) ==
  LET ext == PathExtname(name)
  IN  IF ext = <<".", "md">> THEN "text/markdown"
      ELSE IF ext = <<".", "html">> \/ ext = <<".", "htm">> THEN "text/html"
      ELSE IF ext = <<".", "txt">> THEN "text/plain"
      ELSE IF ext = <<".", "css">> THEN "text/css"
      ELSE IF ext = <<".", "js">> THEN "application/javascript"
      ELSE IF ext = <<".", "json">> THEN "application/json"
      ELSE IF ext = <<".", "png">> THEN "image/png"
      ELSE IF ext = <<".", "mmd">> THEN "application/vnd.chipnuts.karaoke-mmd"
      ELSE "null"

TextRenderable_AnyType(mimeType) == mimeType # "null"

\* mimeType.startsWith('text/') || 'application/javascript' || 'application/json'
TextRenderable(mimeType) ==
  mimeType \in {"text/markdown", "text/html", "text/plain", "text/css",
                "application/javascript", "application/json"}

\* A file's text: a sequence of lines, each a sequence of pieces

\* line.includes(x) for some x of strs
Includes(line, strs) == \E i \in 1..Len(line) : line[i] \in strs

\* content.split('\n')[0]
FirstLine(content) == IF content = <<>> THEN <<>> ELSE content[1]

\* content.includes(x) for some x of strs
ContentIncludes(content, strs) ==
  \E l \in 1..Len(content) : Includes(content[l], strs)

\* Lines 135-154: the extension table (keys without their dot)
languages ==
  [js |-> "javascript", ts |-> "typescript", py |-> "python", java |-> "java",
   cpp |-> "cpp", c |-> "c", css |-> "css", html |-> "html", xml |-> "xml",
   json |-> "json", yml |-> "yaml", yaml |-> "yaml", sh |-> "bash", php |-> "php",
   rb |-> "ruby", go |-> "go", rs |-> "rust", sql |-> "sql"]

SniffLanguage_PythonFirst(content) ==
  LET firstLine == FirstLine(content)
  IN  IF Includes(firstLine, {"#!/usr/bin/env node", "#!/usr/bin/node"})
        THEN "javascript"
      ELSE IF Includes(firstLine, {"#!/usr/bin/env python", "#!/usr/bin/python"})
        THEN "python"
      ELSE IF Includes(firstLine, {"#!/bin/bash", "#!/bin/sh"}) THEN "bash"
      ELSE IF ContentIncludes(content, {"def ", "import ", "from ", "print("})
        THEN "python"
      ELSE IF ContentIncludes(content, {"function ", "const ", "let ", "var ", "class ",
                                        "console.log"}) THEN "javascript"
      ELSE "null"

\* Lines 160-184: the first line's shebang, the JavaScript keywords, the
\* Python keywords
SniffLanguage(content) ==
  LET firstLine == FirstLine(content)
  IN  IF Includes(firstLine, {"#!/usr/bin/env node", "#!/usr/bin/node"})
        THEN "javascript"
      ELSE IF Includes(firstLine, {"#!/usr/bin/env python", "#!/usr/bin/python"})
        THEN "python"
      ELSE IF Includes(firstLine, {"#!/bin/bash", "#!/bin/sh"}) THEN "bash"
      ELSE IF ContentIncludes(content, {"function ", "const ", "let ", "var ", "class ",
                                        "console.log"}) THEN "javascript"
      ELSE IF ContentIncludes(content, {"def ", "import ", "from ", "print("})
        THEN "python"
      ELSE "null"

detectLanguage_CaseSensitive(name, content) ==
  LET ext == RawExtname(name)
  IN  IF Len(ext) = 2 /\ ext[2] \in DOMAIN languages THEN languages[ext[2]]
      ELSE IF ext = <<>> THEN SniffLanguage(content)
      ELSE "null"

\* detectLanguage: the extension table, then (no extension) the content
detectLanguage(name, content) ==
  LET ext == PathExtname(name)
  IN  IF Len(ext) = 2 /\ ext[2] \in DOMAIN languages THEN languages[ext[2]]
      ELSE IF ext = <<>> THEN SniffLanguage(content)
      ELSE "null"

getFileType(ext) ==
  LET types == [md |-> "markdown", html |-> "html", htm |-> "html",
                js |-> "javascript", ts |-> "typescript", json |-> "json",
                css |-> "css", py |-> "python", txt |-> "text",
                yml |-> "yaml", yaml |-> "yaml"]
  IN  IF Len(ext) = 2 /\ ext[2] \in DOMAIN types THEN types[ext[2]] ELSE "file"

\* getFileInfo (size and modification time are not modelled)
getFileInfo(t, abs) ==
  LET isDir == KindOf(t, abs) = "dir"
      name == abs[Len(abs)]
  IN  [name |-> name, isDirectory |-> isDir, extension |-> PathExtname(name),
       type |-> IF isDir THEN "directory" ELSE getFileType(PathExtname(name))]

\* lib/htmlGenerator generateFileHTML: the branch that renders the content.
\* hljs.highlight knows every tag of the languages table, so its catch branch
\* (plain text) is not taken for a tag detectLanguage returns.
generateFileHTML(isMarkdown, language, isHtml, isMermaid) ==
  IF isHtml THEN "html with header"
  ELSE IF isMermaid THEN "mermaid diagram"
  ELSE IF isMarkdown THEN "markdown"
  ELSE IF language # "null" THEN "highlighted"
  ELSE "plain"

\* generateFileHTML's default for a parameter the caller leaves out
isMermaidDefault == FALSE

---------------------------------------------------------------------------
(* The directory listing of the handler *)

\* String#localeCompare (ICU root collation): the pieces of names in
\* alphabetical order, punctuation before letters, case set aside
CollationOrder ==
  <<".", "a", "b", "d", "env", "f", "git", "h", "html", "i", "js", "md", "mmd",
    "notes", "p", "png", "txt", "x">>

CollationRank(piece) ==
  CHOOSE i \in 1..Len(CollationOrder) : CollationOrder[i] = ToLowerCase(<<piece>>)[1]

\* First level: by letters, a proper prefix first
RECURSIVE ComparePrimary(_, _)
ComparePrimary(a, b) ==
  IF a = <<>> /\ b = <<>> THEN 0
  ELSE IF a = <<>> THEN -1
  ELSE IF b = <<>> THEN 1
  ELSE IF CollationRank(Head(a)) < CollationRank(Head(b)) THEN -1
  ELSE IF CollationRank(Head(a)) > CollationRank(Head(b)) THEN 1
  ELSE ComparePrimary(Tail(a), Tail(b))

\* Last level, for names equal but for case: lower case first
RECURSIVE CompareCase(_, _)
CompareCase(a, b) ==
  IF a = <<>> \/ b = <<>> THEN 0
  ELSE IF Head(a) = Head(b) THEN CompareCase(Tail(a), Tail(b))
  ELSE IF ToLowerCase(<<Head(a)>>) = <<Head(a)>> THEN -1
  ELSE 1

LocaleCompare(a, b) ==
  IF ComparePrimary(a, b) # 0 THEN ComparePrimary(a, b) ELSE CompareCase(a, b)

EntryBefore_NamesOnly(a, b) == LocaleCompare(a.name, b.name) < 0

\* The comparator of the sort: directories first, then by name
EntryBefore(a, b) ==
  IF a.isDirectory /\ ~b.isDirectory THEN TRUE
  ELSE IF ~a.isDirectory /\ b.isDirectory THEN FALSE
  ELSE LocaleCompare(a.name, b.name) < 0

RECURSIVE SortEntries(_)
SortEntries(S) ==
  IF S = {} THEN <<>>
  ELSE LET first == CHOOSE e \in S : \A o \in S \ {e} : EntryBefore(e, o)
       IN  <<first>> \o SortEntries(S \ {first})

ListEntries_NoDotFilter(t, dir, ig) ==
  LET kept == {n \in ReadDir(t, dir) : ~shouldIgnoreFile(dir \o <<n>>, ROOT_DIR, ig)}
  IN  SortEntries({getFileInfo(t, dir \o <<n>>) : n \in kept})

\* readdirSync, the dot filter, the ignore filter, getFileInfo, sort
ListEntries(t, dir, ig) ==
  LET names == {n \in ReadDir(t, dir) : ~StartsWith(n, <<".">>)}
      kept == {n \in names : ~shouldIgnoreFile(dir \o <<n>>, ROOT_DIR, ig)}
  IN  SortEntries({getFileInfo(t, dir \o <<n>>) : n \in kept})

---------------------------------------------------------------------------
(* Requests and responses *)

ReqNames == {DotDot, Empty, nGit, nNotes, nA, nF}

\* Decoded request paths: "/" followed by the segments joined by "/"; a
\* request whose percent-encoding is malformed has no decoded path
ExampleRequests ==
  {<<DotDot, DotDot, nEtc, nPasswd>>,   \* /../../etc/passwd
   <<DotDot, nDocs>>,                   \* /../docs
   <<nA, DotDot>>,                      \* /a/..
   <<nA, Empty>>,                       \* /a/
   <<nF, Empty>>,                       \* /f.md/
   <<nA, nF>>,                          \* /a/f.md
   <<nA, nGit>>,                        \* /a/.git
   <<nGit, nA>>,                        \* /.git/a
   <<nNotes, nGit>>,                    \* /..notes/.git
   <<nEnv>>,                            \* /.env
   <<nPng>>}                            \* /p.png

Requests ==
  {[segs |-> s, malformed |-> FALSE] :
     s \in SeqsUpTo(ReqNames, MaxSegs) \cup ExampleRequests}
    \cup {[segs |-> <<>>, malformed |-> TRUE]}

NoReq == [segs |-> <<>>, malformed |-> FALSE]

NoPath == [segs |-> <<>>, trail |-> TRUE]

NoRes == [status |-> 0, body |-> [kind |-> "none"]]

Text(status, text) == [status |-> status, body |-> [kind |-> "text", text |-> text]]

AccessDenied == Text(403, "Access denied: Path outside of root directory")

\* Line 65: the path is ignored
IgnoredResponse_Forbidden == Text(403, "Access denied: Path is ignored")

IgnoredResponse == Text(404, "File not found")

\* Line 70: the path does not exist
MissingResponse == Text(404, "File not found")

ServerError_WithDetail == Text(500, "ENOENT: no such file or directory")

ServerError == Text(500, "Internal server error")

\* A response written by Express itself (its final handler), not by the
\* route handler: an error page with the status of the error
ExpressError(status) == [status |-> status, body |-> [kind |-> "express error page"]]

\* app.get('*'): Express decodes the path matched by '*' before it calls the
\* handler; a malformed percent-encoding fails there with status 400
BadRequest_Uncaught == ExpressError(500)

BadRequest == ExpressError(400)

Access(abs, op) == [path |-> abs, op |-> op]

---------------------------------------------------------------------------
(* Startup: the command line, ROOT_DIR and PORT (server.js lines 21-47)     *)

DefaultPort == 4040

LowestPort == 1

HighestPort == 65535

\* process.cwd()
Cwd == ROOT_DIR

\* process.argv[2]: absent, or a path (absolute or relative to the working
\* directory); the empty string is a path without segments
NoDirArg == [given |-> FALSE, abs |-> FALSE, segs |-> <<>>]

DirArg(abs, segs) == [given |-> TRUE, abs |-> abs, segs |-> segs]

nMissing == <<"missing">>

DirArgs ==
  {NoDirArg,
   DirArg(FALSE, <<>>),                  \* ""
   DirArg(FALSE, <<Dot>>),               \* .
   DirArg(FALSE, <<DotDot, nDocs>>),     \* ../docs
   DirArg(TRUE, <<nSrv, nDocs>>),        \* /srv/docs
   DirArg(FALSE, <<nMissing>>),          \* missing
   DirArg(TRUE, <<nSrv, nMissing>>)}     \* /srv/missing

\* process.argv[3]: absent, or a string written with these pieces
NoPortArg == [given |-> FALSE, str |-> <<>>]

PortArg(str) == [given |-> TRUE, str |-> str]

DigitStrings ==
  ("0" :> 0) @@ ("1" :> 1) @@ ("80" :> 80) @@ ("8080" :> 8080) @@ ("65535" :> 65535)
    @@ ("65536" :> 65536) @@ ("99999" :> 99999)

PortArgs ==
  {NoPortArg, PortArg(<<>>)}
    \cup {PortArg(<<d>>) : d \in DOMAIN DigitStrings}
    \cup {PortArg(<<"-", "1">>), PortArg(<<"abc">>), PortArg(<<"8080", "abc">>),
          PortArg(<<"80", ".", "5">>)}

\* parseInt(str, 10): the leading integer of the string, NaN if there is none
NaN == [nan |-> TRUE, n |-> 0]

ParseInt(str) ==
  IF str # <<>> /\ str[1] \in DOMAIN DigitStrings
    THEN [nan |-> FALSE, n |-> DigitStrings[str[1]]]
  ELSE IF Len(str) >= 2 /\ str[1] = "-" /\ str[2] \in DOMAIN DigitStrings
    THEN [nan |-> FALSE, n |-> 0 - DigitStrings[str[2]]]
  ELSE NaN

\* path.resolve(process.argv[2])
ResolveArg(arg) ==
  IF arg.abs THEN PathResolve(arg.segs) ELSE PathResolve(Cwd \o arg.segs)

\* A string is truthy unless it is empty
Truthy(arg) == arg.given /\ (arg.segs # <<>> \/ arg.abs)

\* fs.existsSync(ROOT_DIR) at startup
RootExists(t, root) ==
  root \in {<<>>, <<nSrv>>} \/ KindOf(t, root) \in {"file", "dir"}

\* The process before its first statement
Starting(dirArg, portArg) ==
  [phase |-> "start", dirArg |-> dirArg, portArg |-> portArg, root |-> Cwd,
   PORT |-> DefaultPort, exitCode |-> 0, stderr |-> FALSE, bound |-> FALSE]

\* The process once app.listen has bound the port, started without arguments
Running ==
  [Starting(NoDirArg, NoPortArg) EXCEPT !.phase = "listening", !.bound = TRUE]

---------------------------------------------------------------------------
(* Initial states *)

Init ==
  /\ gitignore \in InitialGitignores
  /\ tree = InitialTree
  /\ gitignoreCache = <<>>
  /\ pc = "idle"
  /\ req = NoReq
  /\ fullPath = NoPath
  /\ res = NoRes
  /\ caught = "none"
  /\ steps = <<>>
  /\ accessed = {}
  /\ builds = 0
  /\ envSteps = 0
  /\ ignoreFilesChanged = FALSE
  /\ startup = Running
  /\ probe = [phase |-> "off"]

---------------------------------------------------------------------------
(* app.get('*') handler.  The handler is synchronous: no other handler runs *)
(* between its steps, but other processes may change the filesystem        *)
(* between its filesystem calls.                                           *)

GuardRejects_SwappedArgs(fp) ==
  ~isSubPath(fp.segs, ROOT_DIR) /\ ~(fp.segs = ROOT_DIR /\ ~fp.trail)

GuardRejects(fp) ==
  ~isSubPath(ROOT_DIR, fp.segs) /\ ~(fp.segs = ROOT_DIR /\ ~fp.trail)

\* Lines 56-71: decode, join, guard, ignore check, existence check
Route(r) ==
  /\ startup.phase = "listening"
  /\ pc = "idle"
  /\ req' = r
  /\ caught' = "none"
  /\ UNCHANGED <<gitignore, tree, envSteps, ignoreFilesChanged, probe, startup>>
  /\ IF r.malformed
       THEN /\ fullPath' = NoPath
            /\ steps' = <<>>
            /\ res' = BadRequest
            /\ pc' = "done"
            /\ accessed' = {}
            /\ UNCHANGED <<gitignoreCache, builds>>
     ELSE LET fp == PathJoin(ROOT_DIR, r.segs)
              miss == ~CacheHas(gitignoreCache, ROOT_DIR)
              ig == loadGitignoreRules(gitignoreCache, ROOT_DIR, gitignore)
              walk == IF miss THEN WalkAccesses(ROOT_DIR, gitignore) ELSE {}
          IN  /\ fullPath' = fp
              /\ IF GuardRejects(fp)
                   THEN /\ steps' = <<"decode", "guard">>
                        /\ res' = AccessDenied
                        /\ pc' = "done"
                        /\ accessed' = {}
                        /\ UNCHANGED <<gitignoreCache, builds>>
                 ELSE /\ gitignoreCache' = CacheSet(gitignoreCache, ROOT_DIR, ig)
                      /\ builds' = IF miss THEN builds + 1 ELSE builds
                      /\ IF shouldIgnoreFile(fp.segs, ROOT_DIR, ig)
                           THEN /\ steps' = <<"decode", "guard", "ignore">>
                                /\ res' = IgnoredResponse
                                /\ pc' = "done"
                                /\ accessed' = walk
                         ELSE /\ steps' = <<"decode", "guard", "ignore", "exists">>
                              /\ accessed' = walk \cup {Access(fp.segs, "exists")}
                              /\ IF FsExists(tree, fp)
                                   THEN res' = NoRes /\ pc' = "stat"
                                   ELSE res' = MissingResponse /\ pc' = "done"

\* Lines 73-75 and 90-94: statSync, then the dispatch on directory / MIME
\* type.  fault: the call fails for a reason the tree does not show
\* (permissions, I/O error).
Stat(fault) ==
  /\ pc = "stat"
  /\ steps' = Append(steps, "stat")
  /\ accessed' = accessed \cup {Access(fullPath.segs, "stat")}
  /\ UNCHANGED <<gitignore, tree, gitignoreCache, req, fullPath, builds, envSteps, ignoreFilesChanged, probe, startup>>
  /\ LET err == IF StatError(tree, fullPath) # "none" THEN StatError(tree, fullPath)
                ELSE IF fault THEN "EACCES" ELSE "none"
     IN  /\ caught' = err
         /\ IF err # "none"
              THEN res' = ServerError /\ pc' = "done"
            ELSE IF KindOf(tree, fullPath.segs) = "dir"
              THEN res' = NoRes /\ pc' = "list"
            ELSE IF TextRenderable(MimeGetType(fullPath.segs[Len(fullPath.segs)]))
              THEN res' = NoRes /\ pc' = "read"
            ELSE res' = NoRes /\ pc' = "raw"

\* Lines 76-88: the listing
List(fault) ==
  /\ pc = "list"
  /\ steps' = Append(steps, "list")
  /\ pc' = "done"
  /\ UNCHANGED <<gitignore, tree, req, fullPath, envSteps, ignoreFilesChanged, probe, startup>>
  /\ LET dir == fullPath.segs
         isDir == KindOf(tree, dir) = "dir"
         miss == ~CacheHas(gitignoreCache, ROOT_DIR)
         ig == loadGitignoreRules(gitignoreCache, ROOT_DIR, gitignore)
         shown == {n \in ReadDir(tree, dir) : ~StartsWith(n, <<".">>)}
         kept == {n \in shown : ~shouldIgnoreFile(dir \o <<n>>, ROOT_DIR, ig)}
         err == IF ~isDir THEN StatError(tree, [segs |-> dir, trail |-> TRUE])
                ELSE IF \E n \in kept : KindOf(tree, dir \o <<n>>) = "broken" THEN "ENOENT"
                ELSE IF fault THEN "EACCES" ELSE "none"
     IN  /\ accessed' = accessed \cup {Access(dir, "readdir")}
              \cup (IF isDir /\ shown # {} /\ miss
                      THEN WalkAccesses(ROOT_DIR, gitignore) ELSE {})
              \cup (IF isDir THEN {Access(dir \o <<n>>, "stat") : n \in kept} ELSE {})
         /\ IF isDir /\ shown # {}
              THEN /\ gitignoreCache' = CacheSet(gitignoreCache, ROOT_DIR, ig)
                   /\ builds' = IF miss THEN builds + 1 ELSE builds
              ELSE UNCHANGED <<gitignoreCache, builds>>
         /\ caught' = err
         /\ IF err # "none"
              THEN res' = ServerError
              ELSE res' = [status |-> 200,
                           body |-> [kind |-> "listing",
                                     entries |-> ListEntries(tree, dir, ig)]]

\* Texts a file may hold
ExampleContents ==
  {<<>>,
   <<<<"hello world">>>>,
   <<<<"#!/usr/bin/env node">>, <<"hello world">>>>,
   <<<<"function ">>, <<"print(">>>>}

\* Lines 95-102: read the text, classify, render.  content: what
\* fs.readFileSync returns
Read(fault, content) ==
  /\ pc = "read"
  /\ steps' = Append(steps, "classify")
  /\ pc' = "done"
  /\ accessed' = accessed \cup {Access(fullPath.segs, "read")}
  /\ UNCHANGED <<gitignore, tree, gitignoreCache, req, fullPath, builds, envSteps, ignoreFilesChanged, probe, startup>>
  /\ LET name == fullPath.segs[Len(fullPath.segs)]
         ext == PathExtname(name)
         kind == KindOf(tree, fullPath.segs)
         err == IF kind = "dir" THEN "EISDIR"
                ELSE IF StatError(tree, fullPath) # "none" THEN StatError(tree, fullPath)
                ELSE IF fault THEN "EACCES" ELSE "none"
     IN  /\ caught' = err
         /\ IF err # "none"
              THEN res' = ServerError
              ELSE LET isMarkdown == ext = <<".", "md">>
                       isHtml == ext \in {<<".", "html">>, <<".", "htm">>}
                       language == detectLanguage(name, content)
                   IN  res' = [status |-> 200,
                               body |-> [kind |-> "file", name |-> name,
                                         isMarkdown |-> isMarkdown,
                                         isHtml |-> isHtml,
                                         language |-> language,
                                         isMermaid |-> isMermaidDefault,
                                         rendered |-> generateFileHTML(isMarkdown, language,
                                                        isHtml, isMermaidDefault)]]

Raw_FallsThrough(fault) ==
  /\ pc = "raw"
  /\ steps' = Append(steps, "raw")
  /\ pc' = "read"
  /\ accessed' = accessed \cup {Access(fullPath.segs, "stream")}
  /\ res' = [status |-> 200, body |-> [kind |-> "raw", path |-> fullPath.segs]]
  /\ UNCHANGED <<caught, gitignore, tree, gitignoreCache, req, fullPath, builds, envSteps, ignoreFilesChanged, probe, startup>>

\* send (behind res.sendFile, default options): a path with a component
\* that begins with "." is refused before the file is looked at
ContainsDotFile(abs) == \E i \in 1..Len(abs) : StartsWith(abs[i], <<".">>)

\* Line 104: res.sendFile(fullPath).  No callback is given, so a failure goes
\* to Express's final handler: 404 for a refused dotfile, for a file that is
\* gone and for a directory, 500 for any other error.
Raw(fault) ==
  /\ pc = "raw"
  /\ steps' = Append(steps, "raw")
  /\ pc' = "done"
  /\ UNCHANGED <<caught, gitignore, tree, gitignoreCache, req, fullPath, builds, envSteps, ignoreFilesChanged, probe, startup>>
  /\ IF ContainsDotFile(fullPath.segs)
       THEN /\ res' = ExpressError(404)
            /\ UNCHANGED accessed
     ELSE /\ accessed' = accessed \cup {Access(fullPath.segs, "stream")}
          /\ IF KindOf(tree, fullPath.segs) # "file" THEN res' = ExpressError(404)
             ELSE IF fault THEN res' = ExpressError(500)
             ELSE res' = [status |-> 200, body |-> [kind |-> "raw", path |-> fullPath.segs]]

Finish_DropsCache ==
  /\ pc = "done"
  /\ pc' = "idle"
  /\ req' = NoReq
  /\ fullPath' = NoPath
  /\ res' = NoRes
  /\ caught' = "none"
  /\ steps' = <<>>
  /\ accessed' = {}
  /\ gitignoreCache' = <<>>
  /\ UNCHANGED <<gitignore, tree, builds, envSteps, ignoreFilesChanged, probe, startup>>

\* The handler returns; the next request can be handled
Finish ==
  /\ pc = "done"
  /\ pc' = "idle"
  /\ req' = NoReq
  /\ fullPath' = NoPath
  /\ res' = NoRes
  /\ caught' = "none"
  /\ steps' = <<>>
  /\ accessed' = {}
  /\ UNCHANGED <<gitignore, tree, gitignoreCache, builds, envSteps, ignoreFilesChanged, probe, startup>>

\* clearGitignoreCache()
clearGitignoreCache ==
  /\ pc = "idle"
  /\ gitignoreCache # <<>>
  /\ gitignoreCache' = <<>>
  /\ builds' = 0
  /\ ignoreFilesChanged' = FALSE
  /\ UNCHANGED <<gitignore, tree, pc, req, fullPath, res, caught, steps, accessed, envSteps, probe, startup>>

---------------------------------------------------------------------------
(* Other processes: they create, remove and rewrite files at any time.       *)
(* The handler reads the ignore files only in its first step, so a change   *)
(* of an ignore file during a request has the effect of the same change     *)
(* after it; a change of the tree after the response has the effect of the  *)
(* same change after the handler has returned.                              *)

EnvTree(n, k) ==
  /\ pc # "done"
  /\ envSteps < MaxEnvSteps
  /\ n \in EnvNodes /\ k \in Kinds /\ k # tree[n]
  /\ LET t == [m \in TreeNodes |->
                 IF m = n THEN k
                 ELSE IF k # "dir" /\ IsPrefix(n, m) THEN "none"
                 ELSE tree[m]]
     IN  TreeOk(t) /\ tree' = t
  /\ envSteps' = envSteps + 1
  /\ UNCHANGED <<gitignore, gitignoreCache, pc, req, fullPath, res, caught, steps, accessed, builds,
                 ignoreFilesChanged, probe, startup>>

EnvGitignore(d, c) ==
  /\ pc = "idle"
  /\ envSteps < MaxEnvSteps
  /\ d \in WalkDirs /\ c \in GitignoreChoices(d) /\ c # gitignore[d]
  /\ gitignore' = [gitignore EXCEPT ![d] = c]
  /\ envSteps' = envSteps + 1
  /\ ignoreFilesChanged' = CacheHas(gitignoreCache, ROOT_DIR)
  /\ UNCHANGED <<tree, gitignoreCache, pc, req, fullPath, res, caught, steps, accessed, builds, probe, startup>>

Next ==
  \/ \E r \in Requests : Route(r)
  \/ \E fault \in BOOLEAN : Stat(fault)
  \/ \E fault \in BOOLEAN : List(fault)
  \/ \E fault \in BOOLEAN, content \in ExampleContents : Read(fault, content)
  \/ \E fault \in BOOLEAN : Raw(fault)
  \/ Finish
  \/ clearGitignoreCache
  \/ \E n \in EnvNodes, k \in Kinds : EnvTree(n, k)
  \/ \E d \in WalkDirs : \E c \in GitignoreChoices(d) : EnvGitignore(d, c)

Spec == Init /\ [][Next]_vars

---------------------------------------------------------------------------
(* Direct calls of the pure functions isSubPath and shouldIgnoreFile, on    *)
(* candidate paths written with ".", ".." and redundant separators          *)

ProbeNames == {Dot, DotDot, Empty, nSrv, nDocs, nNotes, nA, nGit}

\* Candidates: ROOT_DIR + "/" + up to MaxProbeSegs further segments
ProbePaths == {ROOT_DIR \o s : s \in SeqsUpTo(ProbeNames, MaxProbeSegs)}

\* Rule lists a build can produce
ProbeRules == {BuildRules(ROOT_DIR, g) : g \in InitialGitignores}

ProbeInit ==
  /\ gitignore = Gitignores(Absent, Absent, Absent)
  /\ tree = InitialTree
  /\ gitignoreCache = <<>>
  /\ pc = "idle"
  /\ req = NoReq
  /\ fullPath = NoPath
  /\ res = NoRes
  /\ caught = "none"
  /\ steps = <<>>
  /\ accessed = {}
  /\ builds = 0
  /\ envSteps = 0
  /\ ignoreFilesChanged = FALSE
  /\ startup = Running
  /\ probe \in {[phase |-> "input", child |-> c, ig |-> r, sub |-> FALSE, ign |-> FALSE] :
                  c \in ProbePaths, r \in ProbeRules}

ProbeCall ==
  /\ probe.phase = "input"
  /\ probe' = [probe EXCEPT !.phase = "output",
                            !.sub = isSubPath(ROOT_DIR, probe.child),
                            !.ign = shouldIgnoreFile(probe.child, ROOT_DIR, probe.ig)]
  /\ UNCHANGED serverVars

ProbeNext == ProbeCall

ProbeSpec == ProbeInit /\ [][ProbeNext]_vars

---------------------------------------------------------------------------
(* Listings of the root directory, for the directories it may be: the       *)
(* handler's steps for GET /, started on each of them                       *)

ListedNodes == {<<nUpperA>>, <<nA>>, <<nATxt>>, <<nBTxt>>, <<nUpperBTxt>>, <<nF>>}

ListingTrees ==
  {[n \in TreeNodes |->
      IF n = <<>> THEN "dir"
      ELSE IF n = <<nEnv>> THEN "file"
      ELSE IF n \in ListedNodes THEN listed[n]
      ELSE "none"] : listed \in [ListedNodes -> {"none", "file", "dir"}]}

ListingInit ==
  /\ gitignore \in {Gitignores(Absent, Absent, Absent),
                    Gitignores(Readable(<<pA>>), Absent, Absent)}
  /\ tree \in ListingTrees
  /\ gitignoreCache = <<>>
  /\ pc = "idle"
  /\ req = NoReq
  /\ fullPath = NoPath
  /\ res = NoRes
  /\ caught = "none"
  /\ steps = <<>>
  /\ accessed = {}
  /\ builds = 0
  /\ envSteps = 0
  /\ ignoreFilesChanged = FALSE
  /\ startup = Running
  /\ probe = [phase |-> "off"]

ListingNext ==
  \/ Route([segs |-> <<>>, malformed |-> FALSE])
  \/ \E fault \in BOOLEAN : Stat(fault)
  \/ \E fault \in BOOLEAN : List(fault)
  \/ Finish

ListingSpec == ListingInit /\ [][ListingNext]_vars

---------------------------------------------------------------------------
(* The process from its start: argument handling, the two checks,           *)
(* app.listen, and then requests                                            *)

\* Lines 29-31: ROOT_DIR from the directory argument
ResolveRoot ==
  /\ startup.phase = "start"
  /\ startup' = [startup EXCEPT
                   !.phase = "port",
                   !.root = IF Truthy(startup.dirArg)
                              THEN ResolveArg(startup.dirArg) ELSE startup.root]
  /\ UNCHANGED <<gitignore, tree, gitignoreCache, pc, req, fullPath, res, caught, steps,
                 accessed, builds, envSteps, ignoreFilesChanged, probe>>

\* Lines 33-39: PORT from the port argument, or exit
CheckPort ==
  /\ startup.phase = "port"
  /\ LET arg == startup.portArg
         parsed == ParseInt(arg.str)
     IN  IF ~(arg.given /\ arg.str # <<>>)
           THEN startup' = [startup EXCEPT !.phase = "directory"]
         ELSE IF parsed.nan \/ parsed.n < LowestPort \/ parsed.n > HighestPort
           THEN startup' = [startup EXCEPT !.phase = "exited", !.exitCode = 1,
                                           !.stderr = TRUE]
         ELSE startup' = [startup EXCEPT !.phase = "directory", !.PORT = parsed.n]
  /\ UNCHANGED <<gitignore, tree, gitignoreCache, pc, req, fullPath, res, caught, steps,
                 accessed, builds, envSteps, ignoreFilesChanged, probe>>

CheckDirectory_Skipped ==
  /\ startup.phase = "directory"
  /\ startup' = [startup EXCEPT !.phase = "listen"]
  /\ UNCHANGED <<gitignore, tree, gitignoreCache, pc, req, fullPath, res, caught, steps,
                 accessed, builds, envSteps, ignoreFilesChanged, probe>>

\* Lines 41-44: the directory must exist, or exit
CheckDirectory ==
  /\ startup.phase = "directory"
  /\ IF RootExists(tree, startup.root)
       THEN startup' = [startup EXCEPT !.phase = "listen"]
       ELSE startup' = [startup EXCEPT !.phase = "exited", !.exitCode = 1,
                                       !.stderr = TRUE]
  /\ UNCHANGED <<gitignore, tree, gitignoreCache, pc, req, fullPath, res, caught, steps,
                 accessed, builds, envSteps, ignoreFilesChanged, probe>>

\* Lines 117-119: app.listen(PORT)
Listen ==
  /\ startup.phase = "listen"
  /\ startup' = [startup EXCEPT !.phase = "listening", !.bound = TRUE]
  /\ UNCHANGED <<gitignore, tree, gitignoreCache, pc, req, fullPath, res, caught, steps,
                 accessed, builds, envSteps, ignoreFilesChanged, probe>>

\* The served directory at startup: as in Init, missing, or a regular file
StartupTrees ==
  {InitialTree,
   [n \in TreeNodes |-> "none"],
   [n \in TreeNodes |-> IF n = <<>> THEN "file" ELSE "none"]}

StartupInit ==
  /\ gitignore = Gitignores(Absent, Absent, Absent)
  /\ tree \in StartupTrees
  /\ gitignoreCache = <<>>
  /\ pc = "idle"
  /\ req = NoReq
  /\ fullPath = NoPath
  /\ res = NoRes
  /\ caught = "none"
  /\ steps = <<>>
  /\ accessed = {}
  /\ builds = 0
  /\ envSteps = 0
  /\ ignoreFilesChanged = FALSE
  /\ probe = [phase |-> "off"]
  /\ startup \in {Starting(d, p) : d \in DirArgs, p \in PortArgs}

StartupNext ==
  \/ ResolveRoot
  \/ CheckPort
  \/ CheckDirectory
  \/ Listen
  \/ \E r \in Requests : Route(r)
  \/ Finish

StartupSpec == StartupInit /\ [][StartupNext]_vars

---------------------------------------------------------------------------
(* Direct calls of detectLanguage, on file names with and without extension *)
(* and on texts of up to MaxLines lines                                     *)

MaxLines == 2

nX == <<"x">>

DetectNames ==
  {nX \o <<".", e>> : e \in DOMAIN languages}
    \cup {nX \o <<".", e>> : e \in {"JS", "Py", "Html", "md", "MD", "htm", "txt", "png"}}
    \cup {nX, <<".", "js">>, nX \o <<".">>, nX \o <<".", "js", ".", "md">>}

Lines ==
  {<<>>}
    \cup {<<t>> : t \in {"#!/usr/bin/env node", "#!/usr/bin/env python", "#!/bin/sh",
                         "#!/usr/bin/perl", "function ", "print(", "hello world"}}
    \cup {<<"#!/usr/bin/env python", "#!/usr/bin/env node">>,
          <<"print(", "function ">>}

Contents == SeqsUpTo(Lines, MaxLines)

DetectInit ==
  /\ gitignore = Gitignores(Absent, Absent, Absent)
  /\ tree = InitialTree
  /\ gitignoreCache = <<>>
  /\ pc = "idle"
  /\ req = NoReq
  /\ fullPath = NoPath
  /\ res = NoRes
  /\ caught = "none"
  /\ steps = <<>>
  /\ accessed = {}
  /\ builds = 0
  /\ envSteps = 0
  /\ ignoreFilesChanged = FALSE
  /\ startup = Running
  /\ probe \in {[phase |-> "input", name |-> n, content |-> c, language |-> "null"] :
                  n \in DetectNames, c \in Contents}

DetectCall ==
  /\ probe.phase = "input"
  /\ probe' = [probe EXCEPT !.phase = "output",
                            !.language = detectLanguage(probe.name, probe.content)]
  /\ UNCHANGED serverVars

DetectNext == DetectCall

DetectSpec == DetectInit /\ [][DetectNext]_vars

---------------------------------------------------------------------------
(* Requests for the files of a directory that holds one file of each kind   *)
(* (markdown, HTML, source, Mermaid source, image, dot-prefixed) and a      *)
(* dot-prefixed subdirectory, and for the listings that show them           *)

FileTree ==
  [n \in TreeNodes |->
     IF n \in {<<>>, <<nHidden>>} THEN "dir"
     ELSE IF n \in {<<nF>>, <<nMmd>>, <<nDotMd>>, <<nDotDotMd>>, <<nJs>>, <<nHtml>>,
                    <<nPng>>, <<nEnv>>, <<nATxt>>, <<nHidden, nPng>>} THEN "file"
     ELSE "none"]

FileRequests ==
  {[segs |-> n, malformed |-> FALSE] : n \in {m \in TreeNodes : FileTree[m] # "none"}}

FileInit ==
  /\ gitignore \in {Gitignores(Absent, Absent, Absent),
                    Gitignores(Absent, Absent, Readable(<<pF>>))}
  /\ tree = FileTree
  /\ gitignoreCache = <<>>
  /\ pc = "idle"
  /\ req = NoReq
  /\ fullPath = NoPath
  /\ res = NoRes
  /\ caught = "none"
  /\ steps = <<>>
  /\ accessed = {}
  /\ builds = 0
  /\ envSteps = 0
  /\ ignoreFilesChanged = FALSE
  /\ startup = Running
  /\ probe = [phase |-> "off"]

FileNext ==
  \/ \E r \in FileRequests : Route(r)
  \/ \E fault \in BOOLEAN : Stat(fault)
  \/ \E fault \in BOOLEAN : List(fault)
  \/ \E fault \in BOOLEAN, content \in ExampleContents : Read(fault, content)
  \/ \E fault \in BOOLEAN : Raw(fault)
  \/ Finish

FileSpec == FileInit /\ [][FileNext]_vars

---------------------------------------------------------------------------
(* Direct calls of shouldIgnoreFile(filePath, rootDir) on an empty cache,   *)
(* with the while loop of loadGitignoreRules taken one iteration at a time, *)
(* for each root of the walk and each combination of ignore files           *)

MaxCalls == 2

\* Contents of the ignore files, per directory of the walk
WalkChoices(dir) ==
  IF dir = ROOT_DIR
    THEN {Absent, Unreadable, Readable(<<pA>>), Readable(<<pNotA>>), Readable(<<pADir>>)}
  ELSE IF dir = <<nSrv>>
    THEN {Absent, Unreadable, Readable(<<pA>>), Readable(<<pNotA>>), Readable(<<pNotF>>)}
  ELSE {Absent, Unreadable, Readable(<<pF>>), Readable(<<pNotA>>)}

WalkGitignores ==
  {Gitignores(r, p, t) : r \in WalkChoices(ROOT_DIR), p \in WalkChoices(<<nSrv>>),
                         t \in WalkChoices(<<>>)}

\* Paths below the root that are asked about
WalkPaths == {<<nA>>, <<nF>>, <<nA, nF>>, <<nGit>>}

walkFrame == <<gitignore, tree, pc, req, fullPath, res, caught, steps, accessed,
               builds, envSteps, ignoreFilesChanged, startup>>

WalkInit ==
  /\ gitignore \in WalkGitignores
  /\ tree = InitialTree
  /\ gitignoreCache = <<>>
  /\ pc = "idle"
  /\ req = NoReq
  /\ fullPath = NoPath
  /\ res = NoRes
  /\ caught = "none"
  /\ steps = <<>>
  /\ accessed = {}
  /\ builds = 0
  /\ envSteps = 0
  /\ ignoreFilesChanged = FALSE
  /\ startup = Running
  /\ probe \in {[phase |-> "call", rootDir |-> r, filePath |-> r \o p, calls |-> 1,
                  currentDir |-> r, checkedDirs |-> {}, visited |-> <<>>,
                  warned |-> {}, ig |-> <<>>, hit |-> FALSE, ign |-> FALSE] :
                  r \in WalkDirs, p \in WalkPaths}

\* Lines 115-122: the cache lookup; a miss starts a fresh instance with ".git"
WalkCall ==
  /\ probe.phase = "call"
  /\ IF CacheHas(gitignoreCache, probe.rootDir)
       THEN probe' = [probe EXCEPT !.phase = "returned", !.hit = TRUE,
                                   !.ig = gitignoreCache[probe.rootDir]]
       ELSE probe' = [probe EXCEPT !.phase = "loop", !.hit = FALSE,
                                   !.ig = <<pGit>>,
                                   !.currentDir = probe.rootDir,
                                   !.checkedDirs = {},
                                   !.visited = <<>>,
                                   !.warned = {}]
  /\ UNCHANGED <<gitignoreCache, walkFrame>>

WalkStep_Prepends ==
  /\ probe.phase = "loop"
  /\ IF probe.currentDir \in probe.checkedDirs
       THEN probe' = [probe EXCEPT !.phase = "store"]
       ELSE LET file == gitignore[probe.currentDir]
                parentDir == PathDirname(probe.currentDir)
            IN  probe' = [probe EXCEPT
                  !.checkedDirs = @ \cup {probe.currentDir},
                  !.visited = Append(@, probe.currentDir),
                  !.ig = IF file.st = "ok" THEN file.pats \o @ ELSE @,
                  !.warned = IF file.st = "unreadable" THEN @ \cup {probe.currentDir} ELSE @,
                  !.phase = IF parentDir = probe.currentDir THEN "store" ELSE "loop",
                  !.currentDir = parentDir]
  /\ UNCHANGED <<gitignoreCache, walkFrame>>

WalkStep_StopsOnError ==
  /\ probe.phase = "loop"
  /\ IF probe.currentDir \in probe.checkedDirs
       THEN probe' = [probe EXCEPT !.phase = "store"]
       ELSE LET file == gitignore[probe.currentDir]
                parentDir == PathDirname(probe.currentDir)
            IN  probe' = [probe EXCEPT
                  !.checkedDirs = @ \cup {probe.currentDir},
                  !.visited = Append(@, probe.currentDir),
                  !.ig = IF file.st = "ok" THEN @ \o file.pats ELSE @,
                  !.warned = IF file.st = "unreadable" THEN @ \cup {probe.currentDir} ELSE @,
                  !.phase = IF parentDir = probe.currentDir \/ file.st = "unreadable"
                              THEN "store" ELSE "loop",
                  !.currentDir = parentDir]
  /\ UNCHANGED <<gitignoreCache, walkFrame>>

\* Lines 123-145: one iteration of the while loop.  The loop ends when the
\* current directory was already checked, or by the break at the filesystem
\* root; a read that fails is caught, warned about, and the loop goes on.
WalkStep ==
  /\ probe.phase = "loop"
  /\ IF probe.currentDir \in probe.checkedDirs
       THEN probe' = [probe EXCEPT !.phase = "store"]
       ELSE LET file == gitignore[probe.currentDir]
                parentDir == PathDirname(probe.currentDir)
            IN  probe' = [probe EXCEPT
                  !.checkedDirs = @ \cup {probe.currentDir},
                  !.visited = Append(@, probe.currentDir),
                  !.ig = IF file.st = "ok" THEN @ \o file.pats ELSE @,
                  !.warned = IF file.st = "unreadable" THEN @ \cup {probe.currentDir} ELSE @,
                  !.phase = IF parentDir = probe.currentDir THEN "store" ELSE "loop",
                  !.currentDir = parentDir]
  /\ UNCHANGED <<gitignoreCache, walkFrame>>

WalkStore_Unstored ==
  /\ probe.phase = "store"
  /\ probe' = [probe EXCEPT !.phase = "returned"]
  /\ UNCHANGED <<gitignoreCache, walkFrame>>

\* Lines 148-149: gitignoreCache.set(rootDir, ig); return ig
WalkStore ==
  /\ probe.phase = "store"
  /\ gitignoreCache' = CacheSet(gitignoreCache, probe.rootDir, probe.ig)
  /\ probe' = [probe EXCEPT !.phase = "returned"]
  /\ UNCHANGED walkFrame

\* Lines 159-175: the rest of shouldIgnoreFile, with the instance returned
WalkAnswer ==
  /\ probe.phase = "returned"
  /\ probe' = [probe EXCEPT !.phase = "answered",
                            !.ign = shouldIgnoreFile(probe.filePath, probe.rootDir, probe.ig)]
  /\ UNCHANGED <<gitignoreCache, walkFrame>>

\* The next call, for the same root and another path
WalkAgain(p) ==
  /\ probe.phase = "answered"
  /\ probe.calls < MaxCalls
  /\ probe' = [probe EXCEPT !.phase = "call", !.calls = @ + 1,
                            !.filePath = probe.rootDir \o p]
  /\ UNCHANGED <<gitignoreCache, walkFrame>>

WalkNext ==
  \/ WalkCall
  \/ WalkStep
  \/ WalkStore
  \/ WalkAnswer
  \/ \E p \in WalkPaths : WalkAgain(p)

WalkSpec == WalkInit /\ [][WalkNext]_vars

\* loadGitignoreRules is straight-line synchronous code: once called it runs
\* until it returns
WalkLiveSpec ==
  WalkSpec /\ WF_vars(WalkCall) /\ WF_vars(WalkStep) /\ WF_vars(WalkStore)

---------------------------------------------------------------------------
(* Properties *)

\* Lexical containment, by components
InsideRoot(abs) == IsPrefix(ROOT_DIR, abs)

Handling == pc # "idle" /\ ~req.malformed

IsIgnoreFile(abs) == \E d \in WalkDirs : abs = d \o <<nGitignore>>

\* C1 as stated: every filesystem path the handler tests, stats, lists, reads
\* or streams is the root or a descendant of it.
C1_EveryAccessInsideRoot ==
  \A a \in accessed : InsideRoot(a.path)

\* C1 amended: every path the handler accesses is the root or a descendant of
\* it, except the .gitignore files of the root's ancestors, which the walk of
\* loadGitignoreRules tests and reads; a request whose joined path lies
\* outside the root causes no filesystem access at all.
C1_AccessInsideRootOrIgnoreFile ==
  /\ \A a \in accessed :
       \/ InsideRoot(a.path)
       \/ IsIgnoreFile(a.path) /\ a.op \in {"exists", "read"}
  /\ (Handling /\ ~InsideRoot(fullPath.segs)) => accessed = {}

C1_Witness ==
  /\ pc = "done" /\ res.status = 200
  /\ fullPath.segs = ROOT_DIR \o <<nA>>
  /\ Access(ROOT_DIR \o <<nA, nF>>, "stat") \in accessed
  /\ Access(<<nSrv, nGitignore>>, "exists") \in accessed

\* C2: isSubPath(root, P) is true iff P reduces to the root or to a descendant
\* of it, also when the first component below the root begins with "..".
C2_IsSubPathIffInside ==
  probe.phase = "output" =>
    (probe.sub <=> InsideRoot(PathResolve(probe.child)))

\* C3: a request whose joined path is outside the root is answered 403 and
\* ends there: no ignore check, no filesystem access.
C3_OutsideIs403 ==
  (Handling /\ ~InsideRoot(fullPath.segs)) =>
    /\ pc = "done"
    /\ res = AccessDenied
    /\ steps = <<"decode", "guard">>
    /\ accessed = {}

C3_Witness ==
  /\ pc = "done"
  /\ req.segs = <<DotDot, DotDot, nEtc, nPasswd>>
  /\ fullPath.segs = <<nEtc, nPasswd>>
  /\ res.status = 403

\* The rule set reports the requested path ignored
ReportedIgnored ==
  /\ Handling
  /\ ~GuardRejects(fullPath)
  /\ CacheHas(gitignoreCache, ROOT_DIR)
  /\ shouldIgnoreFile(fullPath.segs, ROOT_DIR, gitignoreCache[ROOT_DIR])

\* C4: a request for an ignored path gets the response of a missing path, and
\* the handler never looks at the ignored path on disk, so its existence and
\* kind cannot show.
C4_IgnoredLooksMissing ==
  /\ ReportedIgnored =>
       /\ pc = "done"
       /\ res = MissingResponse
       /\ \A a \in accessed : a.path # fullPath.segs
  /\ (pc = "done" /\ steps = <<"decode", "guard", "ignore", "exists">>) =>
       res = MissingResponse

C4_Witness ==
  /\ ReportedIgnored
  /\ KindOf(tree, fullPath.segs) = "dir"
  /\ fullPath.segs = ROOT_DIR \o <<nA>>

StepOrders ==
  {<<"decode", "guard", "ignore", "exists", "stat", last>> :
     last \in {"list", "classify", "raw"}}

\* C5: the steps are taken in the order decode, guard, ignore check, existence
\* check, stat, then one of listing, classification, raw streaming; the
\* requested path is touched on disk only after guard and ignore check; once
\* a response is sent no further step is taken.
C5_FixedOrder ==
  /\ \E o \in StepOrders : IsPrefix(steps, o)
  /\ (\E a \in accessed : a.path = fullPath.segs) => Len(steps) >= 4
  /\ res # NoRes <=> pc = "done"

C5_Witness ==
  /\ pc = "done"
  /\ steps = <<"decode", "guard", "ignore", "exists", "stat", "classify">>
  /\ res.status = 200

RootRequestDone == pc = "done" /\ ~req.malformed /\ req.segs = <<>>

\* C6 as stated: a request for / is always answered 200.
C6_RootAlways200 ==
  RootRequestDone => res.status = 200

\* C6 amended: a request for / always passes the guard and the ignore check,
\* whatever the rules are; it is answered 200 with the listing, or 404 when
\* the root directory no longer exists, or 500 when a filesystem call fails
\* while it is listed (the root vanished after the existence check, a listed
\* entry is a broken symbolic link, a permission or I/O error).
C6_RootNeverRefused ==
  RootRequestDone =>
    /\ Len(steps) >= 4
    /\ \/ res.status = 200 /\ res.body.kind = "listing"
       \/ res = MissingResponse /\ Len(steps) = 4 /\ KindOf(tree, ROOT_DIR) # "dir"
       \/ res = ServerError /\ Len(steps) >= 5 /\ caught # "none"

C6_Witness ==
  /\ RootRequestDone
  /\ res.status = 200
  /\ gitignoreCache[ROOT_DIR] = <<pGit, pStar>>
  /\ res.body.entries = <<>>

\* C7: shouldIgnoreFile(P, R) is false for P = R and for every P outside R,
\* whatever the rules are.
C7_RootAndOutsideNeverIgnored ==
  (probe.phase = "output"
     /\ (PathResolve(probe.child) = ROOT_DIR \/ ~InsideRoot(PathResolve(probe.child))))
    => ~probe.ign

C7_Witness ==
  /\ probe.phase = "output"
  /\ PathResolve(probe.child) = <<nSrv, nA>>
  /\ \E i \in 1..Len(probe.ig) : probe.ig[i] = pStar
  /\ ~probe.ign

\* C8: every path under the root with a component equal to .git is reported
\* ignored, whatever the ignore files contain.
C8_GitAlwaysIgnored ==
  LET p == PathResolve(probe.child)
  IN  (probe.phase = "output"
         /\ InsideRoot(p)
         /\ \E i \in (Len(ROOT_DIR) + 1)..Len(p) : p[i] = nGit)
        => probe.ign

IgnoreFileAccesses(acc) == {a \in acc : IsIgnoreFile(a.path)}

\* The ignore decision of the request in hand, if it got that far
DecidedIgnored == pc = "done" /\ steps = <<"decode", "guard", "ignore">>

DecidedNotIgnored == Len(steps) >= 4

\* C9: while the cache holds the root's rule set it is not replaced and no
\* ignore file is read, whatever happens to the ignore files, and every
\* ignore decision is the cached rule set's; only clearGitignoreCache empties
\* it, and the next build takes the ignore files as they are then.
C9_CacheReusedUntilCleared ==
  /\ [](DecidedIgnored =>
          shouldIgnoreFile(fullPath.segs, ROOT_DIR, gitignoreCache[ROOT_DIR]))
  /\ [](DecidedNotIgnored =>
          ~shouldIgnoreFile(fullPath.segs, ROOT_DIR, gitignoreCache[ROOT_DIR]))
  /\ [][CacheHas(gitignoreCache, ROOT_DIR) =>
          /\ gitignoreCache' = gitignoreCache \/ (gitignoreCache' = <<>> /\ pc = "idle" /\ pc' = "idle")
          /\ IgnoreFileAccesses(accessed') \subseteq IgnoreFileAccesses(accessed)]_vars
  /\ [][(~CacheHas(gitignoreCache, ROOT_DIR) /\ CacheHas(gitignoreCache', ROOT_DIR)) =>
          /\ gitignoreCache'[ROOT_DIR] = <<pGit>> \o WalkUp(ROOT_DIR, {}, gitignore)
          /\ IgnoreFileAccesses(accessed') # {}]_vars

\* A request decided by a rule set older than the ignore files
C9_Witness ==
  /\ DecidedIgnored
  /\ ignoreFilesChanged
  /\ ~shouldIgnoreFile(fullPath.segs, ROOT_DIR, BuildRules(ROOT_DIR, gitignore))
  /\ IgnoreFileAccesses(accessed) = {}

EntryNames(es) == [i \in 1..Len(es) |-> es[i].name]

\* A request answered with a directory listing
ListingDone == pc = "done" /\ res.status = 200 /\ res.body.kind = "listing"

NodeNames == {n[Len(n)] : n \in TreeNodes \ {<<>>}}

\* C11: the entries of a listing are exactly the direct children of the
\* requested directory whose name does not begin with "." and that
\* shouldIgnoreFile does not report ignored, each once.
C11_ListingIsExactlyShownChildren ==
  ListingDone =>
    LET dir == fullPath.segs
        es == res.body.entries
    IN  /\ \A i, j \in 1..Len(es) : es[i].name = es[j].name => i = j
        /\ \A i \in 1..Len(es) : es[i].name \in NodeNames
        /\ \A n \in NodeNames :
             (\E i \in 1..Len(es) : es[i].name = n)
               <=> /\ KindOf(tree, dir \o <<n>>) # "none"
                   /\ n[1] # "."
                   /\ ~shouldIgnoreFile(dir \o <<n>>, ROOT_DIR, gitignoreCache[ROOT_DIR])

\* The root holds .git, .env, the ignored directory a with a file in it,
\* f.md and p.png: only f.md and p.png are listed
C11_Witness ==
  /\ ListingDone
  /\ fullPath.segs = ROOT_DIR
  /\ KindOf(tree, ROOT_DIR \o <<nGit>>) = "dir"
  /\ KindOf(tree, ROOT_DIR \o <<nEnv>>) = "file"
  /\ KindOf(tree, ROOT_DIR \o <<nA, nF>>) = "file"
  /\ shouldIgnoreFile(ROOT_DIR \o <<nA>>, ROOT_DIR, gitignoreCache[ROOT_DIR])
  /\ EntryNames(res.body.entries) = <<nF, nPng>>

\* C12: in every listing the directories precede the files, and each group is
\* in ascending locale-aware, case-aware name order: b.txt, directory A and
\* a.txt are listed A, a.txt, b.txt; the files B.txt, a.txt, b.txt are listed
\* a.txt, b.txt, B.txt (with no ignore rules).
C12_DirectoriesFirstThenByName ==
  ListingDone =>
    LET es == res.body.entries
        only(S) == /\ gitignoreCache[ROOT_DIR] = <<pGit>>
                   /\ \A n \in ListedNodes : (tree[n] # "none") <=> (n \in S)
    IN  /\ \A i, j \in 1..Len(es) :
             i < j => /\ es[j].isDirectory => es[i].isDirectory
                      /\ (es[i].isDirectory <=> es[j].isDirectory)
                           => LocaleCompare(es[i].name, es[j].name) < 0
        /\ (only({<<nBTxt>>, <<nUpperA>>, <<nATxt>>}) /\ tree[<<nUpperA>>] = "dir"
               /\ tree[<<nATxt>>] = "file" /\ tree[<<nBTxt>>] = "file")
             => EntryNames(es) = <<nUpperA, nATxt, nBTxt>>
        /\ (only({<<nUpperBTxt>>, <<nATxt>>, <<nBTxt>>}) /\ tree[<<nUpperBTxt>>] = "file"
               /\ tree[<<nATxt>>] = "file" /\ tree[<<nBTxt>>] = "file")
             => EntryNames(es) = <<nATxt, nBTxt, nUpperBTxt>>

\* The example of the claim, and a directory that sorts after a file by name
C12_Witness ==
  /\ ListingDone
  /\ tree[<<nBTxt>>] = "dir" /\ tree[<<nATxt>>] = "file" /\ tree[<<nUpperA>>] = "dir"
  /\ EntryNames(res.body.entries) = <<nUpperA, nBTxt, nATxt>>

\* A request that reached a regular file: the sixth step is the file branch
FileBranchDone == pc = "done" /\ Len(steps) = 6 /\ steps[6] # "list"

\* Extensions whose MIME type begins with text/ or is application/javascript
\* or application/json
TextExtensions ==
  {<<".", e>> : e \in {"md", "html", "htm", "txt", "css", "js", "json"}}

ServedName == fullPath.segs[Len(fullPath.segs)]

C14_ExtensionlessIsHighlighted ==
  (FileBranchDone /\ res.status = 200 /\ PathExtname(ServedName) = <<>>) =>
    /\ res.body.kind = "file"
    /\ \E content \in ExampleContents :
         res.body.language = detectLanguage(ServedName, content)

\* The documented language tag of each extension of the closed table
DocumentedTag ==
  [js |-> "javascript", ts |-> "typescript", py |-> "python", java |-> "java",
   cpp |-> "cpp", c |-> "c", css |-> "css", html |-> "html", xml |-> "xml",
   json |-> "json", yml |-> "yaml", yaml |-> "yaml", sh |-> "bash", php |-> "php",
   rb |-> "ruby", go |-> "go", rs |-> "rust", sql |-> "sql"]

\* C15: detectLanguage returns the documented tag for every extension of the
\* closed table, in any case and whatever the content, and null for every
\* other extension, whatever the content.
C15_ExtensionTable ==
  probe.phase = "output" =>
    LET ext == PathExtname(probe.name)
    IN  /\ (Len(ext) = 2 /\ ext[2] \in DOMAIN DocumentedTag)
             => probe.language = DocumentedTag[ext[2]]
        /\ (ext # <<>> /\ ~(Len(ext) = 2 /\ ext[2] \in DOMAIN DocumentedTag))
             => probe.language = "null"

\* x.JS holding Python text is javascript
C15_Witness ==
  /\ probe.phase = "output"
  /\ probe.name = nX \o <<".", "JS">>
  /\ probe.content = <<<<"#!/usr/bin/env python">>, <<"print(">>>>
  /\ probe.language = "javascript"

\* C16: without extension, a known shebang in the first line decides (node,
\* then python, then bash/sh); otherwise a JavaScript keyword anywhere gives
\* javascript, also when Python keywords are present; otherwise a Python
\* keyword gives python; otherwise null.
C16_SniffingPrecedence ==
  (probe.phase = "output" /\ PathExtname(probe.name) = <<>>) =>
    LET c == probe.content
        first(S) == c # <<>> /\ \E i \in 1..Len(c[1]) : c[1][i] \in S
        any(S) == \E l \in 1..Len(c) : \E i \in 1..Len(c[l]) : c[l][i] \in S
        expected ==
          IF first({"#!/usr/bin/env node", "#!/usr/bin/node"}) THEN "javascript"
          ELSE IF first({"#!/usr/bin/env python", "#!/usr/bin/python"}) THEN "python"
          ELSE IF first({"#!/bin/bash", "#!/bin/sh"}) THEN "bash"
          ELSE IF any({"function ", "const ", "let ", "var ", "class ", "console.log"})
            THEN "javascript"
          ELSE IF any({"def ", "import ", "from ", "print("}) THEN "python"
          ELSE "null"
    IN  /\ probe.language = expected
        /\ c = <<<<"function ">>>> => probe.language = "javascript"
        /\ c = <<<<"#!/usr/bin/env python">>, <<"print(">>>> => probe.language = "python"
        /\ c = <<<<"hello world">>>> => probe.language = "null"

\* Python and JavaScript keywords, no shebang: javascript
C16_Witness ==
  /\ probe.phase = "output"
  /\ probe.name = nX
  /\ probe.content = <<<<"#!/usr/bin/perl">>, <<"print(", "function ">>>>
  /\ probe.language = "javascript"

\* The fixed response of the catch block
Fixed500 ==
  /\ res.status = 500
  /\ res.body = [kind |-> "text", text |-> "Internal server error"]

\* The synchronous filesystem call of the next step cannot succeed on the
\* tree as it is now
SyncCallFails ==
  \/ pc = "stat" /\ KindOf(tree, fullPath.segs) \in {"none", "broken"}
  \/ pc = "list" /\ KindOf(tree, fullPath.segs) # "dir"
  \/ /\ pc = "list"
     /\ \E n \in NodeNames :
          /\ KindOf(tree, fullPath.segs \o <<n>>) = "broken"
          /\ n[1] # "."
          /\ ~shouldIgnoreFile(fullPath.segs \o <<n>>, ROOT_DIR, gitignoreCache[ROOT_DIR])
  \/ pc = "read" /\ KindOf(tree, fullPath.segs) # "file"

C18_HandlerAnswersEveryRequest ==
  (pc = "done" /\ ~req.malformed) =>
    \/ res.status = 200 /\ res.body.kind \in {"listing", "file", "raw"}
    \/ res.status \in {403, 404, 500} /\ res.body.kind = "text"

\* C19: a request whose path cannot be URL-decoded is answered with a
\* 400-class status; no guard, ignore check or filesystem access is performed
\* for it and no rule set is built.
C19_MalformedIs400 ==
  /\ []((pc = "done" /\ req.malformed) =>
          /\ res.status \in 400..499
          /\ steps = <<>>
          /\ accessed = {}
          /\ fullPath = NoPath)
  /\ [][(pc = "idle" /\ pc' = "done" /\ req'.malformed) =>
          (gitignoreCache' = gitignoreCache /\ builds' = builds)]_vars

\* A malformed first request: answered 400, the rule set still unbuilt
C19_Witness ==
  /\ pc = "done"
  /\ req.malformed
  /\ res.status = 400
  /\ gitignoreCache = <<>>

\* The directory named on the command line, resolved
ArgumentRoot ==
  IF Truthy(startup.dirArg) THEN ResolveArg(startup.dirArg) ELSE Cwd

\* The process has bound its port or is about to, or handles a request
BindsOrServes ==
  startup.bound \/ startup.phase \in {"listen", "listening"} \/ pc # "idle"

\* A port argument was given and is not the empty string
PortGiven ==
  startup.portArg.given /\ startup.portArg.str # <<>>

\* No port argument, or one whose leading integer lies in [1, 65535]
PortAccepted ==
  \/ ~PortGiven
  \/ /\ ~ParseInt(startup.portArg.str).nan
     /\ ParseInt(startup.portArg.str).n \in 1..65535

\* C20 as stated: with a port argument that is not an integer in [1, 65535]
\* or a directory argument naming a path that does not exist, the process
\* never binds a port and never handles a request.
C20_InvalidArgumentsNeverBind ==
  LET p == startup.portArg
      isPort == /\ Len(p.str) = 1
                /\ p.str[1] \in DOMAIN DigitStrings
                /\ DigitStrings[p.str[1]] \in 1..65535
  IN  ((p.given /\ ~isPort)
         \/ (startup.dirArg.given /\ ~RootExists(tree, ArgumentRoot)))
        => ~BindsOrServes

\* C20 amended: the port is bound, and requests are handled, only after both
\* checks have passed; a non-empty port argument whose leading integer
\* (parseInt) is missing or outside [1, 65535], or a directory that does not
\* exist, makes the process print an error and exit with status 1 without
\* binding; an empty argument counts as absent, and a port argument with a
\* valid leading integer (8080abc, 80.5) is accepted.
C20_BindsOnlyAfterBothChecks ==
  /\ [](BindsOrServes =>
          /\ PortAccepted /\ RootExists(tree, ArgumentRoot)
          /\ startup.root = ArgumentRoot
          /\ startup.PORT = (IF PortGiven THEN ParseInt(startup.portArg.str).n
                                           ELSE 4040)
          /\ startup.exitCode = 0 /\ ~startup.stderr)
  /\ [](startup.phase = "exited" =>
          /\ ~PortAccepted \/ ~RootExists(tree, ArgumentRoot)
          /\ startup.exitCode = 1 /\ startup.stderr
          /\ ~startup.bound /\ pc = "idle")
  /\ []((~PortAccepted \/ ~RootExists(tree, ArgumentRoot)) => ~BindsOrServes)
  /\ [][startup.phase # "exited"]_vars

\* Port 99999: error printed, exit status 1, nothing bound
C20_Witness ==
  /\ startup.phase = "exited"
  /\ startup.portArg = PortArg(<<"99999">>)
  /\ startup.exitCode = 1 /\ startup.stderr
  /\ ~startup.bound

\* The filesystem calls that only read
ReadOnlyCalls == {"exists", "stat", "readdir", "read", "stream"}

\* C21: a step of the handler leaves the filesystem (tree and ignore files),
\* ROOT_DIR and PORT as they are, makes only read-only filesystem calls, and
\* changes the cache at most by adding the root's entry when there is none;
\* once the entry exists the handler leaves the cache unchanged.
C21_RequestsChangeOnlyTheCache ==
  /\ [](\A a \in accessed : a.op \in ReadOnlyCalls)
  /\ [][pc' # pc =>
          /\ tree' = tree
          /\ gitignore' = gitignore
          /\ startup' = startup
          /\ \/ gitignoreCache' = gitignoreCache
             \/ /\ ~CacheHas(gitignoreCache, ROOT_DIR)
                /\ DOMAIN gitignoreCache' = DOMAIN gitignoreCache \cup {ROOT_DIR}
                /\ \A d \in DOMAIN gitignoreCache : gitignoreCache'[d] = gitignoreCache[d]]_vars

\* A request served from the cached rule set after the ignore files changed:
\* the entry existed when the request began and is still the old one
C21_Witness ==
  /\ pc = "done"
  /\ res.status = 200
  /\ ignoreFilesChanged
  /\ IgnoreFileAccesses(accessed) = {}
  /\ CacheHas(gitignoreCache, ROOT_DIR)
  /\ gitignoreCache[ROOT_DIR] # BuildRules(ROOT_DIR, gitignore)

\* The root of the walk and its ancestors, nearest first
Chain(rootDir) == {SubSeq(rootDir, 1, k) : k \in 0..Len(rootDir)}

\* The patterns read from the ignore file of a directory
FilePats(dir) == IF gitignore[dir].st = "ok" THEN gitignore[dir].pats ELSE <<>>

\* The patterns of the root's file, then of each ancestor's, moving upward
RECURSIVE ChainPats(_)
ChainPats(dir) ==
  FilePats(dir) \o (IF dir = <<>> THEN <<>> ELSE ChainPats(SubSeq(dir, 1, Len(dir) - 1)))

WalkReturned == probe.phase \in {"returned", "answered"}

\* The path asked about, relative to the root
AskedPath == SubSeq(probe.filePath, Len(probe.rootDir) + 1, Len(probe.filePath))

\* An ignore file, taken alone, excludes the path
Excludes(dir, rel) == IgIgnores(FilePats(dir), rel)

\* An ignore file holds a negated pattern that matches the path
Reincludes(dir, rel) ==
  \E i \in 1..Len(FilePats(dir)) :
    FilePats(dir)[i].neg /\ RuleMatches(FilePats(dir)[i], rel, FALSE)

\* An ignore file has no pattern about the path or a directory above it
Silent(dir, rel) ==
  \A i \in 1..Len(FilePats(dir)), k \in 1..Len(rel) :
    ~RuleMatches(FilePats(dir)[i], SubSeq(rel, 1, k), TRUE)

\* The root's file and the file of ancestor anc disagree, the other files
\* having nothing to say
OnlyRootAnd(anc, rel) ==
  /\ anc \in Chain(probe.rootDir) \ {probe.rootDir}
  /\ \A d \in Chain(probe.rootDir) \ {probe.rootDir, anc} : Silent(d, rel)

\* A directory above the path is excluded by the merged rules
ParentExcluded(ig, rel) ==
  \E k \in 1..(Len(rel) - 1) : TestOne(ig, SubSeq(rel, 1, k), TRUE, FALSE)

\* C22 as stated: the merge order is .git, root, ancestors upward, and
\* whenever the root's file and an ancestor's file disagree about a path the
\* ancestor's pattern decides.
C22_AncestorAlwaysDecides ==
  (probe.phase = "answered") =>
    /\ probe.ig = <<pGit>> \o ChainPats(probe.rootDir)
    /\ \A anc \in WalkDirs :
         OnlyRootAnd(anc, AskedPath) =>
           /\ (Excludes(probe.rootDir, AskedPath) /\ Reincludes(anc, AskedPath))
                => ~probe.ign
           /\ (Reincludes(probe.rootDir, AskedPath) /\ Excludes(anc, AskedPath))
                => probe.ign

\* C22 amended: the merge order is .git, root, ancestors upward; when the
\* root's file and an ancestor's file disagree about a path the ancestor's
\* pattern decides, unless a directory above the path is excluded by the
\* merged rules: then the path is ignored whatever negation follows.
C22_AncestorDecidesUnlessParentExcluded ==
  (probe.phase = "answered") =>
    /\ probe.ig = <<pGit>> \o ChainPats(probe.rootDir)
    /\ ParentExcluded(probe.ig, AskedPath) => probe.ign
    /\ \A anc \in WalkDirs :
         (OnlyRootAnd(anc, AskedPath) /\ ~ParentExcluded(probe.ig, AskedPath)) =>
           /\ (Excludes(probe.rootDir, AskedPath) /\ Reincludes(anc, AskedPath))
                => ~probe.ign
           /\ (Reincludes(probe.rootDir, AskedPath) /\ Excludes(anc, AskedPath))
                => probe.ign

\* The root re-includes a, its parent excludes a: a is ignored
C22_Witness ==
  /\ probe.phase = "answered"
  /\ probe.rootDir = ROOT_DIR
  /\ gitignore = Gitignores(Readable(<<pNotA>>), Readable(<<pA>>), Absent)
  /\ AskedPath = <<nA>>
  /\ probe.ig = <<pGit, pNotA, pA>>
  /\ probe.ign

\* C23: the walk visits the root, then each ancestor in turn, each once; it
\* ends at the directory that is its own parent or at a directory already
\* checked; the rule set is then stored in the cache and returned; every
\* call returns.
C23_WalkTerminates ==
  /\ [](\A i \in 1..Len(probe.visited) :
          probe.visited[i] = SubSeq(probe.rootDir, 1, Len(probe.rootDir) - (i - 1)))
  /\ []((probe.phase = "store") =>
          \/ PathDirname(probe.visited[Len(probe.visited)]) = probe.visited[Len(probe.visited)]
          \/ probe.currentDir \in probe.checkedDirs)
  /\ [](WalkReturned =>
          /\ CacheHas(gitignoreCache, probe.rootDir)
          /\ gitignoreCache[probe.rootDir] = probe.ig
          /\ Len(probe.visited) <= Len(probe.rootDir) + 1)
  /\ ((probe.phase = "call") ~> (probe.phase = "returned"))

\* A walk from /srv/docs that went up to the filesystem root and returned
C23_Witness ==
  /\ probe.phase = "returned"
  /\ ~probe.hit
  /\ probe.visited = <<ROOT_DIR, <<nSrv>>, <<>>>>
  /\ gitignoreCache[ROOT_DIR] = probe.ig

\* C24: when an ignore file of the walk cannot be read, the call still
\* returns and caches a rule set: the walk visited every directory, warned
\* about exactly the unreadable files, and the rule set is .git followed by
\* the patterns of every readable file, before and after the failing one.
C24_UnreadableFileIsSkipped ==
  (WalkReturned /\ \E d \in Chain(probe.rootDir) : gitignore[d].st = "unreadable") =>
    /\ probe.ig[1] = pGit
    /\ Len(probe.ig) = 1 + Len(ChainPats(probe.rootDir))
    /\ \A d \in Chain(probe.rootDir) :
         gitignore[d].st = "ok" =>
           \E i \in 2..Len(probe.ig) :
             SubSeq(probe.ig, i, i + Len(gitignore[d].pats) - 1) = gitignore[d].pats
    /\ probe.warned = {d \in Chain(probe.rootDir) : gitignore[d].st = "unreadable"}
    /\ Len(probe.visited) = Len(probe.rootDir) + 1
    /\ gitignoreCache[probe.rootDir] = probe.ig

\* The parent's file is unreadable; the root's and the top one's are merged
C24_Witness ==
  /\ probe.phase = "returned"
  /\ ~probe.hit
  /\ probe.rootDir = ROOT_DIR
  /\ gitignore = Gitignores(Readable(<<pA>>), Unreadable, Readable(<<pF>>))
  /\ probe.warned = {<<nSrv>>}
  /\ probe.ig = <<pGit, pA, pF>>

\* C25: with the directory-only pattern a/ in the root's ignore file, a
\* directory /srv/docs/a is ignored: it is answered 404 when requested and is
\* absent from the root's listing; a regular file of that name is not ignored.
C25_DirectoryOnlyPatternHidesDirectory ==
  (/\ pc = "done"
   /\ ~req.malformed
   /\ caught = "none"
   /\ CacheHas(gitignoreCache, ROOT_DIR)
   /\ gitignoreCache[ROOT_DIR] = <<pGit, pADir>>) =>
    /\ (fullPath.segs = ROOT_DIR \o <<nA>> /\ KindOf(tree, fullPath.segs) = "dir")
         => (DecidedIgnored /\ res = IgnoredResponse)
    /\ (fullPath.segs = ROOT_DIR /\ res.status = 200 /\ tree[<<nA>>] = "dir")
         => \A i \in 1..Len(res.body.entries) : res.body.entries[i].name # nA
    /\ (fullPath.segs = ROOT_DIR \o <<nA>> /\ KindOf(tree, fullPath.segs) = "file")
         => ~DecidedIgnored

\* C27: a candidate that shouldIgnoreFile reports ignored is inside the root
\* for isSubPath; no candidate is both rejected by the guard and reported
\* ignored, so an outside path that matches a pattern is stopped by the guard.
C27_IgnoredImpliesInside ==
  (probe.phase = "output") =>
    /\ probe.ign => probe.sub
    /\ GuardRejects([segs |-> probe.child, trail |-> FALSE]) =>
         (~probe.ign /\ ~probe.sub)

\* /srv/docs/../.git, with the .git rule: outside for the guard, not ignored
C27_Witness ==
  /\ probe.phase = "output"
  /\ probe.child = ROOT_DIR \o <<DotDot, nGit>>
  /\ IgIgnores(probe.ig, <<nGit>>)
  /\ ~probe.sub
  /\ ~probe.ign
  /\ GuardRejects([segs |-> probe.child, trail |-> FALSE])

\* Extensions of Mermaid source files
MermaidExtensions == {<<".", "mmd">>, <<".", "mermaid">>}

\* C26: the renderer is handed isMermaid as derived from the file, and a
\* Mermaid file that is served is rendered as a diagram block.
C26_MermaidIsRenderedAsDiagram ==
  (pc = "done" /\ ~req.malformed /\ res.status = 200 /\ res.body.kind # "listing") =>
    /\ res.body.kind = "file" =>
         res.body.isMermaid = (PathExtname(res.body.name) \in MermaidExtensions)
    /\ PathExtname(ServedName) \in MermaidExtensions =>
         /\ res.body.kind = "file"
         /\ res.body.isMermaid
         /\ res.body.rendered = "mermaid diagram"

\* The request in hand names an existing text-renderable file below the root
\* whose name begins with "." and that no rule ignores; no call has failed
DotFileRequested ==
  /\ pc = "done"
  /\ ~req.malformed
  /\ caught = "none"
  /\ Len(fullPath.segs) > Len(ROOT_DIR)
  /\ IsPrefix(ROOT_DIR, fullPath.segs)
  /\ ~fullPath.trail
  /\ StartsWith(ServedName, <<".">>)
  /\ KindOf(tree, fullPath.segs) = "file"
  /\ TextRenderable(MimeGetType(ServedName))
  /\ ~IgIgnores(BuildRules(ROOT_DIR, gitignore),
                SubSeq(fullPath.segs, Len(ROOT_DIR) + 1, Len(fullPath.segs)))

\* C28: no listing shows a name that begins with ".", and an existing
\* text-renderable file whose name begins with "." and that no rule ignores
\* is rendered with status 200 when requested directly.
C28_DotFilterIsForListingsOnly ==
  /\ ListingDone =>
       \A i \in 1..Len(res.body.entries) : ~StartsWith(res.body.entries[i].name, <<".">>)
  /\ DotFileRequested => (res.status = 200 /\ res.body.kind = "file")

\* The request in hand names an entry of the listing of its parent directory
RequestsListedEntry ==
  /\ pc = "done"
  /\ ~req.malformed
  /\ ~fullPath.trail
  /\ Len(fullPath.segs) > Len(ROOT_DIR)
  /\ IsPrefix(ROOT_DIR, fullPath.segs)
  /\ LET parent == SubSeq(fullPath.segs, 1, Len(fullPath.segs) - 1)
         ig == BuildRules(ROOT_DIR, gitignore)
     IN  /\ KindOf(tree, parent) = "dir"
         /\ ~GuardRejects([segs |-> parent, trail |-> FALSE])
         /\ ~shouldIgnoreFile(parent, ROOT_DIR, ig)
         /\ \E i \in 1..Len(ListEntries(tree, parent, ig)) :
              ListEntries(tree, parent, ig)[i].name = ServedName

===========================================================================
